---- MODULE Spec2Model ----
(***************************************************************************)
(* Hierarchical task scheduling engine of cardi_log: task identifiers,     *)
(* their natural sort key, identifier generation, the task dialog's save   *)
(* path and the two upward propagators (date expansion, completion).       *)
(*                                                                         *)
(* Strings are sequences of one-character strings, so that padding,        *)
(* regular-expression matching and string comparison are computed the way  *)
(* the Python code computes them.                                          *)
(***************************************************************************)
EXTENDS Integers, Sequences, FiniteSets, TLC

VARIABLES db, last, tasks, rows, chart, sessions

vars == <<db, last, tasks, rows, chart, sessions>>

\* no chart has been built
NoChart == [kind |-> "none"]

\* the database sessions that can be open at the same time, none of them
\* open
SessionIds == {"A", "B"}
Idle == [pc |-> "idle"]
NoSessions == [s \in SessionIds |-> Idle]

(***************************************************************************)
(* Bounds of the model.                                                    *)
(***************************************************************************)
MaxIdLen == 10       \* longest identifier string given to the layout sort
MaxRowId == 3        \* largest primary key the store hands out
MaxIdRows == 4       \* the same, in SpecIds
MaxDate == 1         \* dates are the day numbers 0 and MaxDate
MaxTypedDepth == 3   \* deepest identifier typed into the dialog (dots)
MaxTypedNum == 2     \* largest root number typed into the dialog
MaxAggRows == 4      \* largest primary key, in SpecAggregate

(***************************************************************************)
(* Program constants.                                                      *)
(***************************************************************************)
PadWidth == 5        \* part.zfill(5)
MaxComponent == 99999
MaxCompletion == 100

(***************************************************************************)
(* Characters and strings.                                                 *)
(***************************************************************************)
Digits == {"0", "1", "2", "3", "4", "5", "6", "7", "8", "9"}

DigitVal(c) ==
    CASE c = "0" -> 0 [] c = "1" -> 1 [] c = "2" -> 2 [] c = "3" -> 3
      [] c = "4" -> 4 [] c = "5" -> 5 [] c = "6" -> 6 [] c = "7" -> 7
      [] c = "8" -> 8 [] c = "9" -> 9

DigitChar(n) ==
    CASE n = 0 -> "0" [] n = 1 -> "1" [] n = 2 -> "2" [] n = 3 -> "3"
      [] n = 4 -> "4" [] n = 5 -> "5" [] n = 6 -> "6" [] n = 7 -> "7"
      [] n = 8 -> "8" [] n = 9 -> "9"

\* Code point of a character (Python compares str by code point).
CharCode(c) ==
    CASE c = "." -> 46
      [] c \in Digits -> 48 + DigitVal(c)
      [] c = "A" -> 65
      [] c = "K" -> 75
      [] c = "S" -> 83
      [] c = "T" -> 84

IsDigit(c) == c \in Digits

TASK == <<"T", "A", "S", "K">>
DOT == <<".">>

Tail2(s, i) == SubSeq(s, i, Len(s))

\* str.isdigit(): non-empty and every character a digit.
IsDigitStr(s) == Len(s) > 0 /\ \A i \in 1..Len(s) : IsDigit(s[i])

\* int(s) of a digit string.
RECURSIVE IntOf(_)
IntOf(s) ==
    IF Len(s) = 0 THEN 0
    ELSE 10 * IntOf(SubSeq(s, 1, Len(s) - 1)) + DigitVal(s[Len(s)])

\* str(n) of a non-negative integer.
RECURSIVE StrOf(_)
StrOf(n) ==
    IF n < 10 THEN <<DigitChar(n)>>
    ELSE Append(StrOf(n \div 10), DigitChar(n % 10))

\* a < b for Python strings.
RECURSIVE StrLess(_, _)
StrLess(a, b) ==
    IF Len(b) = 0 THEN FALSE
    ELSE IF Len(a) = 0 THEN TRUE
    ELSE IF a[1] # b[1] THEN CharCode(a[1]) < CharCode(b[1])
    ELSE StrLess(Tail(a), Tail(b))

StartsWith(s, p) == Len(s) >= Len(p) /\ SubSeq(s, 1, Len(p)) = p

\* Length of the maximal run of digits at the start of s.
RECURSIVE DigitRunLen(_)
DigitRunLen(s) ==
    IF Len(s) = 0 \/ ~IsDigit(s[1]) THEN 0 ELSE 1 + DigitRunLen(Tail(s))

\* Length of the maximal run of non-digits at the start of s.
RECURSIVE NonDigitRunLen(_)
NonDigitRunLen(s) ==
    IF Len(s) = 0 \/ IsDigit(s[1]) THEN 0 ELSE 1 + NonDigitRunLen(Tail(s))

(***************************************************************************)
(* get_task_sort_key                                                       *)
(***************************************************************************)
\* re.split(r'(\d+)', s): text, digits, text, digits, ..., text.
RECURSIVE ReSplitDigits(_)
ReSplitDigits(s) ==
    LET n == NonDigitRunLen(s)
        d == DigitRunLen(Tail2(s, n + 1))
    IN  IF d = 0 THEN <<s>>
        ELSE <<SubSeq(s, 1, n), SubSeq(s, n + 1, n + d)>>
                \o ReSplitDigits(Tail2(s, n + d + 1))

\* str.zfill(width) of a digit string.
RECURSIVE ZFill(_, _)
ZFill(s, width) == IF Len(s) >= width THEN s ELSE ZFill(<<"0">> \o s, width)

PadPart(part) == IF IsDigitStr(part) THEN ZFill(part, PadWidth) ELSE part

RECURSIVE Join(_)
Join(parts) == IF Len(parts) = 0 THEN <<>> ELSE Head(parts) \o Join(Tail(parts))

get_task_sort_key(task_id) ==
    IF Len(task_id) = 0 THEN <<>>
    ELSE LET parts == ReSplitDigits(task_id)
         IN  Join([i \in 1..Len(parts) |-> PadPart(parts[i])])

\* list.sort(key=get_task_sort_key): stable, ascending.
RECURSIVE InsertByKey(_, _)
InsertByKey(x, sorted) ==
    IF Len(sorted) = 0 THEN <<x>>
    ELSE IF StrLess(get_task_sort_key(x), get_task_sort_key(Head(sorted)))
         THEN <<x>> \o sorted
         ELSE <<Head(sorted)>> \o InsertByKey(x, Tail(sorted))

RECURSIVE SortByKey(_)
SortByKey(list) ==
    IF Len(list) = 0 THEN <<>>
    ELSE InsertByKey(list[Len(list)], SortByKey(SubSeq(list, 1, Len(list) - 1)))

(***************************************************************************)
(* Identifier format: re.match(r"^TASK\d+(\.\d+)*$", id)                   *)
(***************************************************************************)
RECURSIVE MatchDotGroups(_)
MatchDotGroups(s) ==
    IF Len(s) = 0 THEN TRUE
    ELSE /\ s[1] = "."
         /\ DigitRunLen(Tail(s)) > 0
         /\ MatchDotGroups(Tail2(s, 2 + DigitRunLen(Tail(s))))

\* the pattern without its end anchor: a valid prefix is enough
ValidateFormat_Unanchored(id) ==
    /\ StartsWith(id, TASK)
    /\ DigitRunLen(Tail2(id, 5)) > 0

ValidateFormat(id) ==
    /\ StartsWith(id, TASK)
    /\ DigitRunLen(Tail2(id, 5)) > 0
    /\ MatchDotGroups(Tail2(id, 5 + DigitRunLen(Tail2(id, 5))))

\* task_id.count('.')
DotCount(id) == Cardinality({i \in 1..Len(id) : id[i] = "."})

HasDot(id) == \E i \in 1..Len(id) : id[i] = "."

\* task_id.rsplit(".", 1)[0] for an identifier that contains a dot.
LastDot(id) == CHOOSE i \in 1..Len(id) : id[i] = "." /\ \A j \in (i + 1)..Len(id) : id[j] # "."
ParentIdStr(id) == SubSeq(id, 1, LastDot(id) - 1)

(***************************************************************************)
(* The task store: db maps a primary key to the ProjectTask row.           *)
(* parent_id = 0 stands for NULL; NoDate stands for a missing date.        *)
(***************************************************************************)
NoDate == -1
NoRow == 0

EmptyDb == [r \in {} |-> 0]

MaxOf(S) == CHOOSE x \in S : \A y \in S : y <= x

Ids(d) == {d[r].task_id : r \in DOMAIN d}

\* the lookup finds no row (the uniqueness query filters on nothing stored)
FirstWithId_Missing(d, tid) == NoRow

\* session.query(ProjectTask).filter(task_id == tid).first()
RowsWithId(d, tid) == {r \in DOMAIN d : d[r].task_id = tid}
FirstWithId(d, tid) ==
    IF RowsWithId(d, tid) = {} THEN NoRow
    ELSE CHOOSE r \in RowsWithId(d, tid) : \A q \in RowsWithId(d, tid) : r <= q

\* ProjectTask.parent / ProjectTask.children (relationship over parent_id)
ParentOf(d, r) == IF d[r].parent_id \in DOMAIN d THEN d[r].parent_id ELSE NoRow
ChildrenOf(d, p) == {r \in DOMAIN d : d[r].parent_id = p}

\* INTEGER PRIMARY KEY of a new row: largest rowid in the table plus one.
NewRowId(d) == IF DOMAIN d = {} THEN 1 ELSE MaxOf(DOMAIN d) + 1

(***************************************************************************)
(* generate_task_id / generate_subtask_id                                  *)
(***************************************************************************)
\* re.match(r"^TASK(\d+)", tid): the number after TASK, 0 when no match.
LeadingNumber(tid) ==
    IF StartsWith(tid, TASK) /\ DigitRunLen(Tail2(tid, 5)) > 0
    THEN IntOf(SubSeq(tid, 5, 4 + DigitRunLen(Tail2(tid, 5))))
    ELSE 0

generate_task_id(d) ==
    LET existing_ids == {tid \in Ids(d) : Len(tid) > 0}
        max_id == MaxOf({0} \cup {LeadingNumber(tid) : tid \in existing_ids})
    IN  TASK \o StrOf(max_id + 1)

\* the pattern without its closing anchor: P.n.k counts as n
SubNumber_Unanchored(tid, parent_task_id) ==
    IF StartsWith(tid, parent_task_id \o DOT)
         /\ DigitRunLen(Tail2(tid, Len(parent_task_id) + 2)) > 0
    THEN IntOf(SubSeq(tid, Len(parent_task_id) + 2,
                      Len(parent_task_id) + 1
                        + DigitRunLen(Tail2(tid, Len(parent_task_id) + 2))))
    ELSE 0

\* re.match("^" + parent + "\.(\d+)$", tid): the number, 0 when no match.
SubNumber(tid, parent_task_id) ==
    IF StartsWith(tid, parent_task_id \o DOT)
         /\ IsDigitStr(Tail2(tid, Len(parent_task_id) + 2))
    THEN IntOf(Tail2(tid, Len(parent_task_id) + 2))
    ELSE 0

generate_subtask_id(d, parent_task_id) ==
    LET like == {tid \in Ids(d) : StartsWith(tid, parent_task_id \o DOT)}
        max_sub == MaxOf({0} \cup {SubNumber(tid, parent_task_id) : tid \in like})
    IN  parent_task_id \o DOT \o StrOf(max_sub + 1)

(***************************************************************************)
(* update_parent_completion / update_hierarchy_dates                       *)
(***************************************************************************)
\* duration of a child in days, at least 1; a missing start is "now".
ChildDuration(d, c, now) ==
    LET start == IF d[c].start_date = NoDate THEN now ELSE d[c].start_date
        end == IF d[c].end_date = NoDate THEN start ELSE d[c].end_date
        duration == (end - start) + 1
    IN  IF duration < 1 THEN 1 ELSE duration

\* total_duration += duration, over the children
RECURSIVE TotalDuration(_, _, _)
TotalDuration(d, S, now) ==
    IF S = {} THEN 0
    ELSE LET c == CHOOSE x \in S : TRUE
         IN  ChildDuration(d, c, now) + TotalDuration(d, S \ {c}, now)

\* weighted_sum += comp * duration, over the children
RECURSIVE WeightedSum(_, _, _)
WeightedSum(d, S, now) ==
    IF S = {} THEN 0
    ELSE LET c == CHOOSE x \in S : TRUE
         IN  d[c].completion * ChildDuration(d, c, now) + WeightedSum(d, S \ {c}, now)

\* the plain mean of the children's completion, durations ignored
AvgCompletion_Unweighted(d, children, now) ==
    LET Ones(dd) == [r \in DOMAIN dd |->
                       [dd[r] EXCEPT !.start_date = 0, !.end_date = 0]]
    IN  IF children = {} THEN 0
        ELSE WeightedSum(Ones(d), children, now) \div Cardinality(children)

\* the parent itself is averaged together with its children
AvgCompletion_WithSelf(d, children, now) ==
    LET self == {d[c].parent_id : c \in children} \cap DOMAIN d
        all == children \cup self
    IN  IF TotalDuration(d, all, now) > 0
        THEN WeightedSum(d, all, now) \div TotalDuration(d, all, now)
        ELSE 0

\* int(weighted_sum / total_duration)
AvgCompletion(d, children, now) ==
    LET total_duration == TotalDuration(d, children, now)
        weighted_sum == WeightedSum(d, children, now)
    IN  IF total_duration > 0 THEN weighted_sum \div total_duration ELSE 0

\* the parent is recomputed but the recomputation does not go further up
update_parent_completion_OneLevel(d, parent_task, now) ==
    IF parent_task = NoRow \/ parent_task \notin DOMAIN d THEN d
    ELSE LET children == ChildrenOf(d, parent_task)
         IN  IF children = {} THEN d
             ELSE [d EXCEPT ![parent_task].completion = AvgCompletion(d, children, now)]

RECURSIVE update_parent_completion(_, _, _)
update_parent_completion(d, parent_task, now) ==
    IF parent_task = NoRow \/ parent_task \notin DOMAIN d THEN d
    ELSE LET children == ChildrenOf(d, parent_task)
         IN  IF children = {} THEN d
             ELSE LET avg_comp == AvgCompletion(d, children, now)
                  IN  IF d[parent_task].completion # avg_comp
                      THEN LET d2 == [d EXCEPT ![parent_task].completion = avg_comp]
                           IN  IF ParentOf(d2, parent_task) # NoRow
                               THEN update_parent_completion(d2, ParentOf(d2, parent_task), now)
                               ELSE d2
                      ELSE d

\* the comparisons the wrong way round
EndExceeds_Flipped(t_end, p_end) == t_end < p_end
StartPrecedes_Flipped(t_start, p_start) == t_start > p_start

\* if t_end > p_end:        if t_start < p_start:
EndExceeds(t_end, p_end) == t_end > p_end
StartPrecedes(t_start, p_start) == t_start < p_start

\* the parent is updated but the update does not cascade further up
update_hierarchy_dates_NoCascade(d, task) ==
    IF ParentOf(d, task) = NoRow THEN d
    ELSE LET parent == ParentOf(d, task)
             t_start == d[task].start_date
             t_end == d[task].end_date
             p_start == d[parent].start_date
             p_end == d[parent].end_date
         IN  IF t_end = NoDate \/ p_end = NoDate THEN d
             ELSE LET d1 == IF EndExceeds(t_end, p_end)
                            THEN [d EXCEPT ![parent].end_date = t_end] ELSE d
                  IN  IF t_start = NoDate \/ p_start = NoDate THEN d1
                      ELSE IF StartPrecedes(t_start, p_start)
                           THEN [d1 EXCEPT ![parent].start_date = t_start]
                           ELSE d1

\* A comparison with a missing date raises; the except clause ends the call
\* and keeps what was assigned before the raise.
RECURSIVE update_hierarchy_dates(_, _)
update_hierarchy_dates(d, task) ==
    IF ParentOf(d, task) = NoRow THEN d
    ELSE LET parent == ParentOf(d, task)
             t_start == d[task].start_date
             t_end == d[task].end_date
             p_start == d[parent].start_date
             p_end == d[parent].end_date
         IN  IF t_end = NoDate \/ p_end = NoDate THEN d
             ELSE LET d1 == IF EndExceeds(t_end, p_end)
                            THEN [d EXCEPT ![parent].end_date = t_end] ELSE d
                  IN  IF t_start = NoDate \/ p_start = NoDate THEN d1
                      ELSE LET d2 == IF StartPrecedes(t_start, p_start)
                                     THEN [d1 EXCEPT ![parent].start_date = t_start]
                                     ELSE d1
                               changed == EndExceeds(t_end, p_end)
                                            \/ StartPrecedes(t_start, p_start)
                           IN  IF changed THEN update_hierarchy_dates(d2, parent)
                               ELSE d2

\* Whether a comparison of update_hierarchy_dates raises on the way up from
\* `task`: None compared with a datetime is a TypeError.
RECURSIVE date_error_raised(_, _)
date_error_raised(d, task) ==
    IF ParentOf(d, task) = NoRow THEN FALSE
    ELSE LET parent == ParentOf(d, task)
             t_start == d[task].start_date
             t_end == d[task].end_date
             p_start == d[parent].start_date
             p_end == d[parent].end_date
         IN  IF t_end = NoDate \/ p_end = NoDate THEN TRUE
             ELSE IF t_start = NoDate \/ p_start = NoDate THEN TRUE
             ELSE IF EndExceeds(t_end, p_end) \/ StartPrecedes(t_start, p_start)
                  THEN date_error_raised(update_hierarchy_dates_NoCascade(d, task), parent)
                  ELSE FALSE

\* without the try block the error reaches the caller
DateErrorEscapes_Unhandled(raised) == raised

\* except Exception as e: print(...) -- nothing raised inside the try block
\* reaches the caller of update_hierarchy_dates
DateErrorEscapes(raised) == raised /\ FALSE

(***************************************************************************)
(* The task dialog: save_task validates, finalize_save stores and          *)
(* propagates.  A result is the new store and the record of the outcome.   *)
(***************************************************************************)
DatesOf(d, r) == <<d[r].start_date, d[r].end_date>>

\* Rows other than `skip` whose dates / completion differ between d0 and d1.
DateChanged(d0, d1, skip) ==
    {r \in (DOMAIN d0 \cap DOMAIN d1) \ {skip} : DatesOf(d0, r) # DatesOf(d1, r)}
CompletionChanged(d0, d1, skip) ==
    {r \in (DOMAIN d0 \cap DOMAIN d1) \ {skip} : d0[r].completion # d1[r].completion}

\* The record of the last operation: what was asked (op, the identifier and
\* dates of the form), the row it was about, how the identifier was obtained,
\* the status reported, which other rows it changed and which it removed.
Outcome(op, row, status, how, values, d0, d1) ==
    [db |-> d1,
     last |-> [op |-> op, row |-> row, status |-> status, how |-> how,
               tid |-> values.task_id,
               start_date |-> values.start_date,
               end_date |-> values.end_date,
               dchg |-> DateChanged(d0, d1, row),
               cchg |-> CompletionChanged(d0, d1, row),
               gone |-> DOMAIN d0 \ DOMAIN d1,
               rerun |-> "none"]]

NoValues == [task_id |-> <<>>, start_date |-> NoDate, end_date |-> NoDate]

NoOp == [op |-> "none", row |-> NoRow, status |-> "ok", how |-> "none",
         tid |-> <<>>, start_date |-> NoDate, end_date |-> NoDate,
         dchg |-> {}, cchg |-> {}, gone |-> {}, rerun |-> "none"]

\* if current_task_id == "TASK": current_task_id = ""
CurrentTaskId(values) == IF values.task_id = TASK THEN <<>> ELSE values.task_id

Propagate(d, row, parent, now) ==
    update_parent_completion(update_hierarchy_dates(d, row), parent, now)

\* the dates of the form are also written to the children of the saved task
Commit_Downwards(op, row, how, values, d, d1, d2) ==
    IF DateErrorEscapes(date_error_raised(d1, row))
    THEN Outcome(op, row, "save_error", how, values, d, d)
    ELSE Outcome(op, row, "ok", how, values, d,
                 [r \in DOMAIN d2 |->
                    IF d2[r].parent_id = row
                    THEN [d2[r] EXCEPT !.start_date = values.start_date,
                                       !.end_date = values.end_date]
                    ELSE d2[r]])

\* db.commit(), or db.rollback() in finalize_save's except clause when the
\* hierarchy update raised: d is the store before the save, d1 the store with
\* the saved row, d2 the store after the propagators.
Commit(op, row, how, values, d, d1, d2) ==
    IF DateErrorEscapes(date_error_raised(d1, row))
    THEN Outcome(op, row, "save_error", how, values, d, d)
    ELSE Outcome(op, row, "ok", how, values, d, d2)

finalize_save(d, task, parent_task, values, now) ==
    LET current_task_id == CurrentTaskId(values)
    IN  IF task # NoRow
        THEN \* edit of the stored row `task`
             LET how == IF current_task_id = <<>> THEN "keep" ELSE "typed"
             IN  IF /\ current_task_id # <<>>
                    /\ current_task_id # d[task].task_id
                    /\ FirstWithId(d, current_task_id) # NoRow
                 THEN Outcome("edit", task, "duplicate", how, values, d, d)
                 ELSE LET kept == IF current_task_id # <<>> THEN current_task_id
                                  ELSE d[task].task_id
                          tid == IF kept = <<>> THEN generate_task_id(d) ELSE kept
                          d1 == [d EXCEPT ![task] =
                                    [@ EXCEPT !.task_id = tid,
                                              !.start_date = values.start_date,
                                              !.end_date = values.end_date,
                                              !.completion = values.completion]]
                          d2 == IF ParentOf(d1, task) # NoRow
                                THEN Propagate(d1, task, ParentOf(d1, task), now)
                                ELSE d1
                      IN  Commit("edit", task, how, values, d, d1, d2)
        ELSE \* create
             LET how == IF parent_task # NoRow THEN "sub"
                        ELSE IF current_task_id = <<>> THEN "auto" ELSE "typed"
                 final_task_id == IF current_task_id = <<>> THEN generate_task_id(d)
                                  ELSE current_task_id
             IN  IF current_task_id # <<>> /\ FirstWithId(d, final_task_id) # NoRow
                 THEN Outcome("create", NoRow, "duplicate", how, values, d, d)
                 ELSE LET p_id == IF parent_task # NoRow THEN parent_task
                                  ELSE IF HasDot(final_task_id)
                                       THEN FirstWithId(d, ParentIdStr(final_task_id))
                                       ELSE NoRow
                          new == NewRowId(d)
                          new_task == [task_id |-> final_task_id,
                                       parent_id |-> p_id,
                                       start_date |-> values.start_date,
                                       end_date |-> values.end_date,
                                       completion |-> values.completion]
                          d1 == [r \in DOMAIN d \cup {new} |->
                                    IF r = new THEN new_task ELSE d[r]]
                          d2 == IF p_id # NoRow THEN Propagate(d1, new, p_id, now)
                                ELSE d1
                      IN  Commit("create", new, how, values, d, d1, d2)

\* The confirmation dialog of step 3 never opens: the stored end date is a
\* date object, strptime raises on it and the bare except leaves
\* needs_confirm False, so finalize_save always follows a passed validation.
save_task(d, task, parent_task, values, now) ==
    LET current_task_id == CurrentTaskId(values)
        op == IF task # NoRow THEN "edit" ELSE "create"
        Fail(status) == Outcome(op, task, status, "none", values, d, d)
    IN  IF ~values.has_name THEN Fail("name_required")
        ELSE IF current_task_id # <<>> /\ ~ValidateFormat(current_task_id)
        THEN Fail("invalid_format")
        ELSE IF /\ values.start_date # NoDate
                /\ values.end_date # NoDate
                /\ values.start_date > values.end_date
        THEN Fail("date_range")
        ELSE IF /\ parent_task = NoRow
                /\ current_task_id # <<>>
                /\ HasDot(current_task_id)
                /\ FirstWithId(d, ParentIdStr(current_task_id)) = NoRow
        THEN Fail("parent_missing")
        ELSE finalize_save(d, task, parent_task, values, now)

\* the cascade stops at the children
Descendants_ChildrenOnly(d, S) == S \cup {r \in DOMAIN d : d[r].parent_id \in S}

\* cascade="all, delete-orphan": the row and everything below it.
RECURSIVE Descendants(_, _)
Descendants(d, S) ==
    LET below == {r \in DOMAIN d : d[r].parent_id \in S} \ S
    IN  IF below = {} THEN S ELSE Descendants(d, S \cup below)

(***************************************************************************)
(* Actions                                                                 *)
(***************************************************************************)
\* "Add Task": show_task_dialog() then save_task.  cap is the largest
\* primary key the store hands out in the model.
CreateTask(values, now, cap) ==
    /\ NewRowId(db) <= cap
    /\ LET res == save_task(db, NoRow, NoRow, values, now)
       IN  db' = res.db /\ last' = res.last
    /\ UNCHANGED <<tasks, rows, chart, sessions>>

\* "Add Sub-Task" of a stored task: the identifier field is read-only and
\* holds generate_subtask_id; the button is disabled below two dots.
CreateSubTask(p, values, now, cap) ==
    /\ p \in DOMAIN db
    /\ DotCount(db[p].task_id) < 2
    /\ NewRowId(db) <= cap
    /\ LET default_id == generate_subtask_id(db, db[p].task_id)
           res == save_task(db, NoRow, p, [values EXCEPT !.task_id = default_id], now)
       IN  db' = res.db /\ last' = res.last
    /\ UNCHANGED <<tasks, rows, chart, sessions>>

\* A field of the edit dialog that the user leaves as it is shown.
SameId == <<"=">>
SameDate == -2

\* Edit of a stored task.  The dialog shows the stored values; the
\* completion slider is disabled (keeps the stored value) when the task has
\* children.
EditTask(t, values, now) ==
    /\ t \in DOMAIN db
    /\ LET entered ==
               [task_id |-> IF values.task_id = SameId THEN db[t].task_id
                            ELSE values.task_id,
                has_name |-> values.has_name,
                start_date |-> IF values.start_date = SameDate THEN db[t].start_date
                               ELSE values.start_date,
                end_date |-> IF values.end_date = SameDate THEN db[t].end_date
                             ELSE values.end_date,
                completion |-> IF ChildrenOf(db, t) # {} THEN db[t].completion
                               ELSE values.completion]
           res == save_task(db, t, NoRow, entered, now)
       IN  db' = res.db /\ last' = res.last
    /\ UNCHANGED <<tasks, rows, chart, sessions>>

DeleteTask(t) ==
    /\ t \in DOMAIN db
    /\ LET gone == Descendants(db, {t})
           d1 == [r \in DOMAIN db \ gone |-> db[r]]
       IN  db' = d1 /\ last' = Outcome("delete", t, "ok", "none", NoValues, db, d1).last
    /\ UNCHANGED <<tasks, rows, chart, sessions>>

\* A direct call of update_parent_completion on a stored task, committed.
RecomputeCompletion(p, now) ==
    /\ p \in DOMAIN db
    /\ LET d1 == update_parent_completion(db, p, now)
           rerun == IF last.op = "recompute" /\ last.row = p
                    THEN (IF last.cchg # {} THEN "after_change" ELSE "after_no_change")
                    ELSE "first"
       IN  /\ db' = d1
           /\ last' = [Outcome("recompute", NoRow, "ok", "none", NoValues, db, d1).last
                          EXCEPT !.row = p, !.rerun = rerun]
    /\ UNCHANGED <<tasks, rows, chart, sessions>>

(***************************************************************************)
(* Inputs                                                                  *)
(***************************************************************************)
Dates == {0, MaxDate}
Completions == {0, MaxCompletion}
\* datetime.now() is read only for a child without a start date
Clock == {MaxDate}

Form(id, s, e, c) ==
    [task_id |-> id, has_name |-> TRUE, start_date |-> s, end_date |-> e,
     completion |-> c]

\* a form whose Task Name is left empty
Nameless == [Form(TASK, 0, 0, 0) EXCEPT !.has_name = FALSE]

\* dates vary, the identifier field is left as it is
DateForms == {Form(TASK, s, e, 0) : s \in Dates, e \in Dates} \cup {Nameless}

\* an edit of the dates, the identifier left as shown
DateEdits == {Form(SameId, s, e, 0) : s \in Dates, e \in Dates}

\* durations and completion vary
CompletionForms == {Form(TASK, 0, e, c) : e \in Dates, c \in Completions}

\* an edit that moves the completion slider only
CompletionEdits == {Form(SameId, SameDate, SameDate, c) : c \in Completions}

InitStore ==
    /\ db = EmptyDb
    /\ last = NoOp
    /\ tasks = <<>>
    /\ rows = <<>>
    /\ chart = NoChart
    /\ sessions = NoSessions

Rows == 1..MaxRowId

(***************************************************************************)
(* Spec: the dialog with generated identifiers and varying dates.          *)
(***************************************************************************)
Init == InitStore

Next ==
    \/ \E v \in DateForms, now \in Clock : CreateTask(v, now, MaxRowId)
    \/ \E p \in Rows, v \in DateForms, now \in Clock : CreateSubTask(p, v, now, MaxRowId)
    \/ \E t \in Rows, v \in DateEdits, now \in Clock : EditTask(t, v, now)
    \/ \E t \in Rows : DeleteTask(t)

Spec == Init /\ [][Next]_vars

(***************************************************************************)
(* SpecCompletion: the dialog with varying durations and completion; an    *)
(* edit moves the completion slider only.                                  *)
(***************************************************************************)
NextCompletion ==
    \/ \E v \in CompletionForms, now \in Clock : CreateTask(v, now, MaxRowId)
    \/ \E p \in Rows, v \in CompletionForms, now \in Clock :
          CreateSubTask(p, v, now, MaxRowId)
    \/ \E t \in Rows, v \in CompletionEdits, now \in Clock : EditTask(t, v, now)

SpecCompletion == InitStore /\ [][NextCompletion]_vars

(***************************************************************************)
(* SpecRecompute: creations, deletions (which leave a parent's completion  *)
(* stale) and direct calls of the aggregation.                             *)
(***************************************************************************)
\* a one-day task not started, or a task to MaxDate that is complete
RecomputeForms == {Form(TASK, 0, 0, 0), Form(TASK, 0, MaxDate, MaxCompletion)}

NextRecompute ==
    \/ \E v \in RecomputeForms, now \in Clock : CreateTask(v, now, MaxRowId)
    \/ \E p \in Rows, v \in RecomputeForms, now \in Clock :
          CreateSubTask(p, v, now, MaxRowId)
    \/ \E t \in Rows : DeleteTask(t)
    \/ \E p \in Rows, now \in Clock : RecomputeCompletion(p, now)

SpecRecompute == InitStore /\ [][NextRecompute]_vars

(***************************************************************************)
(* SpecAggregate: SpecCompletion with room for a parent, its sibling and   *)
(* a grandchild under one root.                                            *)
(***************************************************************************)
AggRows == 1..MaxAggRows

NextAggregate ==
    \/ \E v \in CompletionForms, now \in Clock : CreateTask(v, now, MaxAggRows)
    \/ \E p \in AggRows, v \in CompletionForms, now \in Clock :
          CreateSubTask(p, v, now, MaxAggRows)
    \/ \E t \in AggRows, v \in CompletionEdits, now \in Clock : EditTask(t, v, now)

SpecAggregate == InitStore /\ [][NextAggregate]_vars

(***************************************************************************)
(* SpecMissing: the dialog on a project whose stored tasks may lack a      *)
(* start or an end date (the columns are nullable).  The project starts    *)
(* with TASK1 and its sub-task TASK1.1.                                    *)
(***************************************************************************)
MaybeDates == Dates \cup {NoDate}

ValidRange(s, e) == s = NoDate \/ e = NoDate \/ s <= e

StoredRow(id, parent, s, e) ==
    [task_id |-> id, parent_id |-> parent, start_date |-> s, end_date |-> e,
     completion |-> 0]

InitMissing ==
    /\ db \in {<<StoredRow(TASK \o <<"1">>, NoRow, s1, e1),
                   StoredRow(TASK \o <<"1", ".", "1">>, 1, s2, e2)>> :
                 s1 \in MaybeDates, e1 \in MaybeDates, s2 \in MaybeDates, e2 \in MaybeDates}
    /\ \A r \in DOMAIN db : ValidRange(db[r].start_date, db[r].end_date)
    /\ last = NoOp
    /\ tasks = <<>>
    /\ rows = <<>>
    /\ chart = NoChart
    /\ sessions = NoSessions

\* an edit that leaves both date fields as they are shown
KeepDates == Form(SameId, SameDate, SameDate, 0)

NextMissing ==
    \/ \E p \in Rows, v \in DateForms, now \in Clock : CreateSubTask(p, v, now, MaxRowId)
    \/ \E t \in Rows, v \in DateEdits \cup {KeepDates}, now \in Clock : EditTask(t, v, now)

SpecMissing == InitMissing /\ [][NextMissing]_vars

(***************************************************************************)
(* SpecStale: sub-tasks, deletions (which leave a parent's completion      *)
(* stale) and direct calls of the aggregation below the one root TASK1,    *)
(* with room for a task that has two children and a grandchild.            *)
(***************************************************************************)
InitStale ==
    /\ db = <<StoredRow(TASK \o <<"1">>, NoRow, 0, 0)>>
    /\ last = NoOp
    /\ tasks = <<>>
    /\ rows = <<>>
    /\ chart = NoChart
    /\ sessions = NoSessions

NextStale ==
    \/ \E p \in AggRows, v \in RecomputeForms, now \in Clock :
          CreateSubTask(p, v, now, MaxAggRows)
    \/ \E t \in AggRows \ {1} : DeleteTask(t)
    \/ \E p \in AggRows, now \in Clock : RecomputeCompletion(p, now)

SpecStale == InitStale /\ [][NextStale]_vars

(***************************************************************************)
(* SpecTxn: finalize_save in the steps of its database session, with two   *)
(* sessions open at the same time.  A SELECT takes no lock and sees what   *)
(* is committed; the INSERT of db.flush() and the UPDATEs of db.commit()   *)
(* need the write lock of the database file, which one session holds from  *)
(* its first write to its commit or rollback.  A session that finds the    *)
(* lock taken waits, or gives up with "database is locked".                *)
(***************************************************************************)
\* a one-day task for "Add Task", a task to MaxDate for "Add Sub-Task"
TxnForm(parent_task) ==
    IF parent_task = NoRow THEN Form(TASK, 0, 0, 0) ELSE Form(TASK, 0, MaxDate, 0)

\* an edit that ends the task on MaxDate, and one that starts it after its end
TxnEdits == {Form(SameId, 0, MaxDate, 0), Form(SameId, MaxDate, 0, 0)}

Active(s) == sessions[s].pc # "idle"
LockHeldByOther(s) == \E o \in SessionIds \ {s} : sessions[o].pc = "flushed"

\* every write is committed as it is made
AfterFlush_Autocommit(d, pending) == pending

\* db.flush() with autocommit=False: the INSERT is part of the open
\* transaction, the committed store stays d
AfterFlush(d, pending) == d

\* the columns that the session changed since it loaded the rows: for every
\* changed row the new values of its changed columns
DirtyColumns(snapshot, pending) ==
    LET dirty == {r \in DOMAIN snapshot : pending[r] # snapshot[r]}
    IN  [r \in dirty |->
            [f \in {g \in DOMAIN snapshot[r] : pending[r][g] # snapshot[r][g]} |->
                pending[r][f]]]

\* the UPDATE statements of a commit
MergeUpdates(d, updates) ==
    [r \in DOMAIN d |->
        IF r \in DOMAIN updates
        THEN [f \in DOMAIN d[r] |-> IF f \in DOMAIN updates[r] THEN updates[r][f] ELSE d[r][f]]
        ELSE d[r]]

\* except Exception: db.rollback()
Rollback(s, op, how, values) ==
    /\ sessions' = [sessions EXCEPT ![s] = Idle]
    /\ last' = Outcome(op, NoRow, "save_error", how, values, db, db).last
    /\ db' = db

\* save_task and the reads of finalize_save for a new task: the identifier
\* (generated or checked) and the parent
BeginCreate(s, parent_task, values, now) ==
    /\ ~Active(s)
    /\ parent_task # NoRow => (parent_task \in DOMAIN db /\ DotCount(db[parent_task].task_id) < 2)
    /\ NewRowId(db) + Cardinality({o \in SessionIds : sessions[o].pc = "read"}) <= MaxRowId
    /\ LET v == IF parent_task = NoRow THEN values
                ELSE [values EXCEPT !.task_id =
                                       generate_subtask_id(db, db[parent_task].task_id)]
           res == save_task(db, NoRow, parent_task, v, now)
       IN  IF res.last.status # "ok"
           THEN last' = res.last /\ UNCHANGED sessions
           ELSE /\ sessions' = [sessions EXCEPT ![s] =
                                   [pc |-> "read", op |-> "create", how |-> res.last.how,
                                    values |-> v, new_task |-> res.db[res.last.row]]]
                /\ UNCHANGED last
    /\ UNCHANGED <<db, tasks, rows, chart>>

\* db.add(new_task); db.flush(); the propagators on the rows as they are now
Flush(s, now) ==
    /\ sessions[s].pc = "read"
    /\ ~LockHeldByOther(s)
    /\ LET new == NewRowId(db)
           new_task == sessions[s].new_task
           d1 == [r \in DOMAIN db \cup {new} |-> IF r = new THEN new_task ELSE db[r]]
           d2 == IF ParentOf(d1, new) # NoRow
                 THEN Propagate(d1, new, ParentOf(d1, new), now)
                 ELSE d1
       IN  /\ sessions' = [sessions EXCEPT ![s] =
                              [pc |-> "flushed", op |-> "create", how |-> sessions[s].how,
                               values |-> sessions[s].values, row |-> new, pending |-> d2]]
           /\ db' = AfterFlush(db, d2)
    /\ UNCHANGED <<last, tasks, rows, chart>>

\* db.flush() raises "database is locked"
FlushBusy(s) ==
    /\ sessions[s].pc = "read"
    /\ LockHeldByOther(s)
    /\ Rollback(s, "create", sessions[s].how, sessions[s].values)
    /\ UNCHANGED <<tasks, rows, chart>>

\* db.commit() of a create
CommitCreate(s) ==
    /\ sessions[s].pc = "flushed"
    /\ db' = sessions[s].pending
    /\ last' = Outcome("create", sessions[s].row, "ok", sessions[s].how,
                       sessions[s].values, db, sessions[s].pending).last
    /\ sessions' = [sessions EXCEPT ![s] = Idle]
    /\ UNCHANGED <<tasks, rows, chart>>

\* db.commit() raises while another connection is using the file
CommitBusy(s) ==
    /\ sessions[s].pc = "flushed"
    /\ \E o \in SessionIds \ {s} : Active(o)
    /\ Rollback(s, "create", sessions[s].how, sessions[s].values)
    /\ UNCHANGED <<tasks, rows, chart>>

\* save_task and finalize_save for a stored task up to the commit: the row,
\* its ancestors and their children are loaded and changed in the session
BeginEdit(s, t, values, now) ==
    /\ ~Active(s)
    /\ t \in DOMAIN db
    /\ LET entered == [values EXCEPT !.task_id = db[t].task_id,
                                     !.completion = db[t].completion]
           res == save_task(db, t, NoRow, entered, now)
       IN  IF res.last.status # "ok"
           THEN last' = res.last /\ UNCHANGED sessions
           ELSE /\ sessions' = [sessions EXCEPT ![s] =
                                   [pc |-> "dirty", op |-> "edit", how |-> res.last.how,
                                    values |-> entered, row |-> t,
                                    updates |-> DirtyColumns(db, res.db)]]
                /\ UNCHANGED last
    /\ UNCHANGED <<db, tasks, rows, chart>>

\* db.commit() of an edit: the UPDATEs and the commit
CommitEdit(s) ==
    /\ sessions[s].pc = "dirty"
    /\ ~LockHeldByOther(s)
    /\ LET d2 == MergeUpdates(db, sessions[s].updates)
       IN  /\ db' = d2
           /\ last' = Outcome("edit", sessions[s].row, "ok", sessions[s].how,
                              sessions[s].values, db, d2).last
    /\ sessions' = [sessions EXCEPT ![s] = Idle]
    /\ UNCHANGED <<tasks, rows, chart>>

\* db.commit() of an edit raises "database is locked"
EditBusy(s) ==
    /\ sessions[s].pc = "dirty"
    /\ LockHeldByOther(s)
    /\ Rollback(s, "edit", sessions[s].how, sessions[s].values)
    /\ UNCHANGED <<tasks, rows, chart>>

NextTxn ==
    \/ \E s \in SessionIds, p \in Rows \cup {NoRow}, now \in Clock :
          BeginCreate(s, p, TxnForm(p), now)
    \/ \E s \in SessionIds, now \in Clock : Flush(s, now)
    \/ \E s \in SessionIds : FlushBusy(s)
    \/ \E s \in SessionIds : CommitCreate(s)
    \/ \E s \in SessionIds : CommitBusy(s)
    \/ \E s \in SessionIds, t \in Rows, v \in TxnEdits, now \in Clock : BeginEdit(s, t, v, now)
    \/ \E s \in SessionIds : CommitEdit(s)
    \/ \E s \in SessionIds : EditBusy(s)

SpecTxn == InitStore /\ [][NextTxn]_vars

(***************************************************************************)
(* SpecWalk: the two propagators, one call level per step, started on the  *)
(* first row of a store whose parent links are arbitrary: intact up to a   *)
(* root, pointing at a row that is gone, or cyclic.                        *)
(***************************************************************************)
MaxWalkRows == 2     \* rows of a store the propagators walk

WalkRows == 1..MaxWalkRows

\* parent_id: none, a stored row (the row itself included) or a row that
\* is gone
WalkParents == {NoRow} \cup WalkRows \cup {MaxWalkRows + 1}

WalkRow(r, parent, s, e, c) ==
    [task_id |-> TASK \o StrOf(r), parent_id |-> parent,
     start_date |-> s, end_date |-> e, completion |-> c]

\* stores for the walk over dates: every pair of dates, nothing completed;
\* the walk starts on row 1 and only its start date may be missing
DateFields ==
    {f \in [WalkRows -> WalkParents \X MaybeDates \X Dates] :
        \A r \in WalkRows : r > 1 => f[r][2] # NoDate}

DateStores ==
    {[r \in WalkRows |-> WalkRow(r, f[r][1], f[r][2], f[r][3], 0)] : f \in DateFields}

\* stores for the walk over completion: every completion, row 1 lasts
\* MaxDate + 1 days and the other rows one day
CompletionStores ==
    {[r \in WalkRows |-> WalkRow(r, f[r][1], 0, IF r = 1 THEN MaxDate ELSE 0, f[r][2])] :
        f \in [WalkRows -> WalkParents \X Completions]}

WalkStores == DateStores \cup CompletionStores

InitWalk ==
    /\ db \in WalkStores
    /\ last = NoOp
    /\ tasks = <<>>
    /\ rows = <<>>
    /\ chart = NoChart
    /\ sessions = NoSessions

\* the recursive call is made whether or not a date was changed
CascadeNeeded_Always(changed) == TRUE

\* if changed: ... update_hierarchy_dates(session, parent)
CascadeNeeded(changed) == changed

\* One call level of update_hierarchy_dates: the store it leaves and the
\* task of the recursive call, NoRow when the call returns.
DatesFrame(d, task) ==
    IF ParentOf(d, task) = NoRow THEN [store |-> d, next |-> NoRow]
    ELSE LET parent == ParentOf(d, task)
             t_start == d[task].start_date
             t_end == d[task].end_date
             p_start == d[parent].start_date
             p_end == d[parent].end_date
         IN  IF t_end = NoDate \/ p_end = NoDate THEN [store |-> d, next |-> NoRow]
             ELSE LET d1 == IF EndExceeds(t_end, p_end)
                            THEN [d EXCEPT ![parent].end_date = t_end] ELSE d
                  IN  IF t_start = NoDate \/ p_start = NoDate
                      THEN [store |-> d1, next |-> NoRow]
                      ELSE LET d2 == IF StartPrecedes(t_start, p_start)
                                     THEN [d1 EXCEPT ![parent].start_date = t_start]
                                     ELSE d1
                               changed == EndExceeds(t_end, p_end)
                                            \/ StartPrecedes(t_start, p_start)
                           IN  [store |-> d2,
                                next |-> IF CascadeNeeded(changed) THEN parent ELSE NoRow]

\* One call level of update_parent_completion: the store it leaves and the
\* parent of the recursive call, NoRow when the call returns.
CompletionFrame(d, parent_task, now) ==
    IF parent_task = NoRow \/ parent_task \notin DOMAIN d
    THEN [store |-> d, next |-> NoRow]
    ELSE LET children == ChildrenOf(d, parent_task)
         IN  IF children = {} THEN [store |-> d, next |-> NoRow]
             ELSE LET avg_comp == AvgCompletion(d, children, now)
                  IN  IF d[parent_task].completion # avg_comp
                      THEN LET d2 == [d EXCEPT ![parent_task].completion = avg_comp]
                           IN  [store |-> d2, next |-> ParentOf(d2, parent_task)]
                      ELSE [store |-> d, next |-> NoRow]

Walker == "A"

\* update_hierarchy_dates(session, task) is called on row 1
CallDates ==
    /\ last.op = "none"
    /\ sessions = NoSessions
    /\ sessions' = [sessions EXCEPT ![Walker] = [pc |-> "dates", task |-> 1]]
    /\ last' = [NoOp EXCEPT !.op = "dates", !.row = 1]
    /\ UNCHANGED <<db, tasks, rows, chart>>

\* update_parent_completion(session, task.parent) is called for row 1; the
\* clock is read as `now`
CallCompletion ==
    /\ last.op = "none"
    /\ sessions = NoSessions
    /\ \E now \in Dates :
          sessions' = [sessions EXCEPT ![Walker] =
                          [pc |-> "completion", task |-> ParentOf(db, 1), now |-> now]]
    /\ last' = [NoOp EXCEPT !.op = "completion", !.row = 1]
    /\ UNCHANGED <<db, tasks, rows, chart>>

\* the body of update_hierarchy_dates at the current call level
StepDates ==
    /\ sessions[Walker].pc = "dates"
    /\ LET frame == DatesFrame(db, sessions[Walker].task)
       IN  /\ db' = frame.store
           /\ sessions' = IF frame.next = NoRow THEN NoSessions
                          ELSE [sessions EXCEPT ![Walker].task = frame.next]
           /\ last' = [last EXCEPT !.dchg = @ \cup
                          {r \in DOMAIN db : DatesOf(frame.store, r) # DatesOf(db, r)}]
    /\ UNCHANGED <<tasks, rows, chart>>

\* the body of update_parent_completion at the current call level
StepCompletion ==
    /\ sessions[Walker].pc = "completion"
    /\ LET frame == CompletionFrame(db, sessions[Walker].task, sessions[Walker].now)
       IN  /\ db' = frame.store
           /\ sessions' = IF frame.next = NoRow THEN NoSessions
                          ELSE [sessions EXCEPT ![Walker].task = frame.next]
           /\ last' = [last EXCEPT !.cchg = @ \cup
                          {r \in DOMAIN db : frame.store[r].completion # db[r].completion}]
    /\ UNCHANGED <<tasks, rows, chart>>

NextWalk ==
    \/ CallDates
    \/ CallCompletion
    \/ StepDates
    \/ StepCompletion

SpecWalk == InitWalk /\ [][NextWalk]_vars

\* a call that has been made runs on: the interpreter executes the next
\* call level
FairWalk == SpecWalk /\ WF_vars(StepDates) /\ WF_vars(StepCompletion)

(***************************************************************************)
(* SpecIds: sequences of saves with typed, generated and renamed           *)
(* identifiers; dates and completion fixed.                                *)
(***************************************************************************)
\* typed roots TASK1..TASKn, and the chain TASK1, TASK1.1, TASK1.1.1, ...
TypedRoots == {TASK \o StrOf(n) : n \in 1..MaxTypedNum}

RECURSIVE TypedChain(_)
TypedChain(k) == IF k = 0 THEN TASK \o StrOf(1) ELSE TypedChain(k - 1) \o DOT \o StrOf(1)

TypedIds == TypedRoots \cup {TypedChain(k) : k \in 0..MaxTypedDepth}

\* a typed identifier that the format check rejects
Malformed == TASK \o <<"1", ".">>

\* "Add Task" with a typed identifier, the placeholder or a malformed one,
\* or with a start date after the end date
CreateForms ==
    {Form(id, 0, 0, 0) : id \in TypedIds \cup {TASK, Malformed}}
        \cup {Form(TASK, MaxDate, 0, 0)}

\* an edit that renames the task to TASK1, keeps its own identifier, or
\* replaces it by the placeholder, or that enters a start date after the end
RenameForms ==
    {Form(id, 0, 0, 0) : id \in {TypedChain(0), TASK, SameId}}
        \cup {Form(SameId, MaxDate, 0, 0)}

IdRows == 1..MaxIdRows

NextIds ==
    \/ \E v \in CreateForms, now \in Clock : CreateTask(v, now, MaxIdRows)
    \/ \E p \in IdRows, now \in Clock :
          CreateSubTask(p, Form(TASK, 0, 0, 0), now, MaxIdRows)
    \/ \E t \in IdRows, v \in RenameForms, now \in Clock : EditTask(t, v, now)

SpecIds == InitStore /\ [][NextIds]_vars

(***************************************************************************)
(* SpecImport: the dialog operations and the import of a file.  A file is  *)
(* the list of its Task ID cells ("" for an empty cell); every row has the *)
(* same dates and completion.  Two rows of a file never name the same      *)
(* task.                                                                   *)
(***************************************************************************)
MaxImportRows == 1   \* rows of an imported file

\* the Task ID cells of a file: TASK1, TASK1.1 or empty
ImportIds == {TypedChain(0), TypedChain(1), <<>>}

ImportFiles ==
    UNION {{f \in [1..n -> ImportIds] :
              \A i, j \in 1..n : (i < j /\ f[i] = f[j]) => f[i] = <<>>} :
           n \in 0..MaxImportRows}

\* the cells of a row after the cleaning: the dates are the strings made by
\* strftime('%Y-%m-%d'), shown as the days they name
ImportRow(id) ==
    [task_id |-> id, start_date |-> 0, end_date |-> MaxDate, completion |-> 0]

\* the bind processor stores whatever it is given
DateBindAccepts_Strings(kind) == TRUE

\* start_date = Column(Date): on SQLite the column takes None and date
\* objects and raises TypeError on anything else when the statement is made
DateBindAccepts(kind) == kind \in {"none", "date"}

\* one pass of the loop over the rows of the file, on the session's store
UpsertRow(d, row) ==
    LET task_id == row.task_id
        parent_id == IF task_id # <<>> /\ HasDot(task_id)
                     THEN FirstWithId(d, ParentIdStr(task_id))
                     ELSE NoRow
        task == FirstWithId(d, task_id)
        new == NewRowId(d)
        Added(id, parent) ==
            [r \in DOMAIN d \cup {new} |->
                IF r = new
                THEN [task_id |-> id, parent_id |-> parent,
                      start_date |-> row.start_date, end_date |-> row.end_date,
                      completion |-> row.completion]
                ELSE d[r]]
    IN  IF task_id # <<>>
        THEN IF task # NoRow
             THEN [d EXCEPT ![task] =
                      [@ EXCEPT !.start_date = row.start_date,
                                !.end_date = row.end_date,
                                !.completion = row.completion,
                                !.parent_id = IF parent_id # NoRow THEN parent_id ELSE @]]
             ELSE Added(task_id, parent_id)
        ELSE Added(generate_task_id(d), NoRow)

RECURSIVE UpsertRows(_, _)
UpsertRows(d, ids) ==
    IF Len(ids) = 0 THEN d
    ELSE UpsertRows(UpsertRow(d, ImportRow(Head(ids))), Tail(ids))

\* for t in all_tasks: if t.parent_id: update_hierarchy_dates(db, t)
RECURSIVE PostDates(_, _)
PostDates(d, S) ==
    IF S = {} THEN d
    ELSE LET t == CHOOSE x \in S : \A y \in S : x <= y
         IN  PostDates(IF d[t].parent_id # NoRow THEN update_hierarchy_dates(d, t) ELSE d,
                       S \ {t})

\* for t in all_tasks: if t.children: update_parent_completion(db, t)
RECURSIVE PostCompletion(_, _, _)
PostCompletion(d, S, now) ==
    IF S = {} THEN d
    ELSE LET t == CHOOSE x \in S : \A y \in S : x <= y
         IN  PostCompletion(IF ChildrenOf(d, t) # {} THEN update_parent_completion(d, t, now)
                            ELSE d,
                            S \ {t}, now)

\* the store of the session when db.commit() is reached
ImportPending(d, file, now) ==
    LET d1 == UpsertRows(d, SortByKey(file))
    IN  IF Len(file) > 0
        THEN PostCompletion(PostDates(d1, DOMAIN d1), DOMAIN d1, now)
        ELSE d1

\* import_tasks_from_file: every row of the file writes its two date strings
\* to a new or to a stored task, so the first flush of a file with rows, or
\* the commit, raises inside the try block and the except clause rolls back.
import_tasks_from_file(d, file, now) ==
    LET values == [NoValues EXCEPT !.task_id = IF Len(file) > 0 THEN Head(file) ELSE <<>>]
    IN  IF Len(file) = 0 \/ DateBindAccepts("str")
        THEN Outcome("import", NoRow, "ok", "none", values, d, ImportPending(d, file, now))
        ELSE Outcome("import", NoRow, "import_error", "none", values, d, d)

\* on_import_result: the file picker hands over a file
ImportTasks(file, now) ==
    /\ LET res == import_tasks_from_file(db, file, now)
       IN  db' = res.db /\ last' = res.last
    /\ UNCHANGED <<tasks, rows, chart, sessions>>

\* "Add Task" with the typed identifier TASK2 or a generated one
ImportCreateForms == {Form(TASK \o StrOf(2), 0, 0, 0), Form(TASK, 0, 0, 0)}

\* an edit that renames the task to TASK1 or to TASK1.1 or keeps its
\* identifier
ImportRenameForms == {Form(id, 0, 0, 0) : id \in {TypedChain(0), TypedChain(1), SameId}}

NextImport ==
    \/ \E v \in ImportCreateForms, now \in Clock : CreateTask(v, now, MaxRowId)
    \/ \E p \in Rows, now \in Clock : CreateSubTask(p, Form(TASK, 0, 0, 0), now, MaxRowId)
    \/ \E t \in Rows, v \in ImportRenameForms, now \in Clock : EditTask(t, v, now)
    \/ \E t \in Rows : DeleteTask(t)
    \/ \E file \in ImportFiles, now \in Clock : ImportTasks(file, now)

SpecImport == InitStore /\ [][NextImport]_vars

(***************************************************************************)
(* SpecSort: the task layout sorts its rows by get_task_sort_key.          *)
(* tasks is the list handed to the layout (insertion order), rows the      *)
(* sorted list.  The identifiers are all valid identifiers over two digits *)
(* that fit in MaxIdLen characters.                                        *)
(***************************************************************************)
SortDigits == {"0", "1"}

DigitStrings(n) == UNION {[1..k -> SortDigits] : k \in 1..n}

SortIds ==
    LET fits(id) == Len(id) <= MaxIdLen
        ok(c) == IntOf(c) <= MaxComponent
        R0 == {c \in DigitStrings(MaxIdLen - 4) : ok(c)}
        R1 == {c \in DigitStrings(MaxIdLen - 6) : ok(c)}
        R2 == {c \in DigitStrings(MaxIdLen - 8) : ok(c)}
    IN  {TASK \o a : a \in R0}
          \cup {id \in {TASK \o a \o DOT \o b : a \in R1, b \in R1} : fits(id)}
          \cup {id \in {TASK \o a \o DOT \o b \o DOT \o c : a \in R2, b \in R2, c \in R2} :
                  fits(id)}

InitSort ==
    /\ db = EmptyDb
    /\ last = NoOp
    /\ tasks \in {t \in SortIds \X SortIds : t[1] # t[2]}
    /\ rows = <<>>
    /\ chart = NoChart
    /\ sessions = NoSessions

\* data.sort(key=lambda x: get_task_sort_key(x['id']))
BuildLayout ==
    /\ rows = <<>>
    /\ rows' = SortByKey(tasks)
    /\ UNCHANGED <<db, last, tasks, chart, sessions>>

NextSort == BuildLayout

SpecSort == InitSort /\ [][NextSort]_vars

(***************************************************************************)
(* Calendar dates <<year, month, day>> and the time scales.                *)
(***************************************************************************)
FirstYear == 2020    \* first_date of the date picker
MaxYearSpan == 1     \* the dates lie in FirstYear .. FirstYear + MaxYearSpan

IsLeap(y) == (y % 4 = 0 /\ y % 100 # 0) \/ y % 400 = 0

DaysInMonth(y, m) ==
    IF m = 2 THEN (IF IsLeap(y) THEN 29 ELSE 28)
    ELSE IF m \in {4, 6, 9, 11} THEN 30 ELSE 31

DaysInYear(y) == IF IsLeap(y) THEN 366 ELSE 365

\* date.timetuple().tm_yday
RECURSIVE DayOfYear(_)
DayOfYear(date) ==
    IF date[2] = 1 THEN date[3]
    ELSE DaysInMonth(date[1], date[2] - 1) + DayOfYear(<<date[1], date[2] - 1, date[3]>>)

\* days from the first of January of FirstYear
RECURSIVE DaysBeforeYear(_)
DaysBeforeYear(y) == IF y <= FirstYear THEN 0 ELSE DaysInYear(y - 1) + DaysBeforeYear(y - 1)

Ordinal(date) == DaysBeforeYear(date[1]) + DayOfYear(date) - 1

\* (a - b).days
DaysBetween(a, b) == Ordinal(a) - Ordinal(b)

Scales == {"Days", "Weeks", "Months", "Quarters", "Years"}

\* get_time_scale_config(view_mode)["slot_width"]; unknown names fall back
\* to "Days"
SlotWidth(view_mode) ==
    CASE view_mode = "Weeks" -> 40
      [] view_mode = "Months" -> 50
      [] view_mode = "Quarters" -> 60
      [] view_mode = "Years" -> 80
      [] OTHER -> 30

\* the year difference is left out
TotalMonths_NoYear(date_obj, min_date) == date_obj[2] - min_date[2]

\* total_months = year_diff * 12 + month_diff
TotalMonths(date_obj, min_date) ==
    (date_obj[1] - min_date[1]) * 12 + (date_obj[2] - min_date[2])

\* get_x_offset_for_date as the exact fraction <<numerator, denominator>>:
\* 31.0 and 3.0 divide by 31 and 93, 365.25 is 1461 / 4.
get_x_offset_for_date(date_obj, min_date, view_mode, slot_width) ==
    CASE view_mode = "Days" ->
            <<DaysBetween(date_obj, min_date) * slot_width, 1>>
      [] view_mode = "Weeks" ->
            <<DaysBetween(date_obj, min_date) * slot_width, 7>>
      [] view_mode = "Months" ->
            <<(TotalMonths(date_obj, min_date) * 31 + (date_obj[3] - 1)) * slot_width, 31>>
      [] view_mode = "Quarters" ->
            <<(TotalMonths(date_obj, min_date) * 31 + (date_obj[3] - 1)) * slot_width, 93>>
      [] view_mode = "Years" ->
            <<((date_obj[1] - min_date[1]) * 1461 + 4 * (DayOfYear(date_obj) - 1))
                 * slot_width, 1461>>
      [] OTHER -> <<0, 1>>

(***************************************************************************)
(* SpecOffset: offsets of pairs of dates on one axis.                      *)
(***************************************************************************)
Years == FirstYear..(FirstYear + MaxYearSpan)

\* the first two and the last days of every month
EdgeDays(y, m) == {1, 2} \cup {dd \in 28..31 : dd <= DaysInMonth(y, m)}

CalendarDates == UNION {{<<y, m, dd>> : dd \in EdgeDays(y, m)} : <<y, m>> \in Years \X (1..12)}

\* the axis origins: the first and the last day of a year
Origins == {<<y, 1, 1>> : y \in Years} \cup {<<y, 12, 31>> : y \in Years}

Earlier(a, b) == Ordinal(a) < Ordinal(b)

\* two calls of get_x_offset_for_date with the origin, the scale and the
\* slot width of one chart
MeasureOffsets ==
    /\ chart = NoChart
    /\ sessions = NoSessions
    /\ \E view_mode \in Scales, min_date \in Origins, a \in CalendarDates, b \in CalendarDates :
          /\ Earlier(a, b)
          /\ chart' = [kind |-> "offsets", view_mode |-> view_mode, min_date |-> min_date,
                       a |-> a, b |-> b,
                       xa |-> get_x_offset_for_date(a, min_date, view_mode, SlotWidth(view_mode)),
                       xb |-> get_x_offset_for_date(b, min_date, view_mode, SlotWidth(view_mode))]
    /\ UNCHANGED <<db, last, tasks, rows, sessions>>

NextOffset == MeasureOffsets

SpecOffset == InitStore /\ [][NextOffset]_vars

(***************************************************************************)
(* SpecLayout: the task chart and the portfolio chart built from one list. *)
(* An entry of the list is [id, start_date, end_date, group]: group is the *)
(* workstream of a task and the status of a project; dates are day numbers *)
(* or NoDate.                                                              *)
(***************************************************************************)
MaxTasks == 2        \* longest list given to a chart

Groups == {"Active", "Completed"}

\* the i-th entry of a list: the identifiers arrive in descending order
LayoutId(i) == TASK \o StrOf(MaxTasks + 1 - i)

LayoutLists ==
    UNION {{[i \in 1..n |-> [id |-> LayoutId(i), start_date |-> f[i][1],
                             end_date |-> f[i][2], group |-> f[i][3]]] :
              f \in [1..n -> MaybeDates \X MaybeDates \X Groups]} : n \in 0..MaxTasks}

InitLayout ==
    /\ db = EmptyDb
    /\ last = NoOp
    /\ tasks \in LayoutLists
    /\ rows = <<>>
    /\ chart = NoChart
    /\ sessions = NoSessions

\* every entry is kept, dated or not
HasBothDates_Any(t) == TRUE

\* if not t.start_date or not t.end_date: continue
HasBothDates(t) == t.start_date # NoDate /\ t.end_date # NoDate

MinOf(S) == CHOOSE x \in S : \A y \in S : x <= y

MinStart(data) == MinOf({data[i].start_date : i \in 1..Len(data)})
MaxEnd(data) == MaxOf({data[i].end_date : i \in 1..Len(data)})

\* data.sort(key=lambda x: get_task_sort_key(x['id']))
RECURSIVE InsertData(_, _)
InsertData(x, sorted) ==
    IF Len(sorted) = 0 THEN <<x>>
    ELSE IF StrLess(get_task_sort_key(x.id), get_task_sort_key(Head(sorted).id))
         THEN <<x>> \o sorted
         ELSE <<Head(sorted)>> \o InsertData(x, Tail(sorted))

RECURSIVE SortData(_)
SortData(data) ==
    IF Len(data) = 0 THEN <<>>
    ELSE InsertData(data[Len(data)], SortData(SubSeq(data, 1, Len(data) - 1)))

\* colors = [BLUE, GREEN, ORANGE, PURPLE, RED, TEAL]
Palette == <<"BLUE", "GREEN", "ORANGE", "PURPLE", "RED", "TEAL">>

GroupsOf(data) == {data[i].group : i \in 1..Len(data)}

\* list(set(...)): the iteration order of a set of strings follows their
\* hashes, which are seeded per process; any order of the distinct values
\* can come out
SetOrders(S) ==
    {o \in [1..Cardinality(S) -> S] : \A i, j \in 1..Cardinality(S) : o[i] = o[j] => i = j}

\* color_map = {ws: colors[i % len(colors)] for i, ws in enumerate(unique_ws)}
color_map(unique_ws, ws) ==
    LET i == CHOOSE k \in 1..Len(unique_ws) : unique_ws[k] = ws
    IN  Palette[((i - 1) % Len(Palette)) + 1]

\* status_colors.get(item['status'], GREY)
status_colors(status) ==
    CASE status = "Active" -> "GREEN"
      [] status = "Completed" -> "BLUE"
      [] status = "On Hold" -> "ORANGE"
      [] status = "Cancelled" -> "RED"
      [] status = "Proposed" -> "PURPLE"
      [] OTHER -> "GREY"

\* generate_native_gantt_chart(tasks, view_mode)
BuildTaskChart ==
    /\ chart = NoChart
    /\ sessions = NoSessions
    /\ \E view_mode \in Scales :
         LET data == SelectSeq(tasks, HasBothDates)
             sorted == SortData(data)
         IN  IF Len(tasks) = 0
             THEN chart' = [kind |-> "no_tasks", layout |-> "task", view_mode |-> view_mode]
             ELSE IF Len(data) = 0
             THEN chart' = [kind |-> "no_dates", layout |-> "task", view_mode |-> view_mode]
             ELSE \E unique_ws \in SetOrders(GroupsOf(data)) :
                    chart' = [kind |-> "chart", layout |-> "task", view_mode |-> view_mode,
                              slot_width |-> SlotWidth(view_mode),
                              min_date |-> MinStart(data) - 2,
                              max_date |-> MaxEnd(data) + 5,
                              rows |-> [i \in 1..Len(sorted) |->
                                          [id |-> sorted[i].id,
                                           start |-> sorted[i].start_date,
                                           end |-> sorted[i].end_date,
                                           workstream |-> sorted[i].group,
                                           color |-> color_map(unique_ws, sorted[i].group)]]]
    /\ UNCHANGED <<db, last, tasks, rows, sessions>>

\* generate_native_portfolio_gantt_chart(projects, view_mode)
BuildPortfolioChart ==
    /\ chart = NoChart
    /\ sessions = NoSessions
    /\ \E view_mode \in Scales :
         LET data == SelectSeq(tasks, HasBothDates)
         IN  IF Len(tasks) = 0
             THEN chart' = [kind |-> "no_tasks", layout |-> "portfolio", view_mode |-> view_mode]
             ELSE IF Len(data) = 0
             THEN chart' = [kind |-> "no_dates", layout |-> "portfolio", view_mode |-> view_mode]
             ELSE chart' = [kind |-> "chart", layout |-> "portfolio", view_mode |-> view_mode,
                            slot_width |-> SlotWidth(view_mode),
                            min_date |-> MinStart(data) - 5,
                            max_date |-> MaxEnd(data) + 5,
                            rows |-> [i \in 1..Len(data) |->
                                        [id |-> data[i].id,
                                         start |-> data[i].start_date,
                                         end |-> data[i].end_date,
                                         status |-> data[i].group,
                                         color |-> status_colors(data[i].group)]]]
    /\ UNCHANGED <<db, last, tasks, rows, sessions>>

NextLayout == BuildTaskChart \/ BuildPortfolioChart

SpecLayout == InitLayout /\ [][NextLayout]_vars

(***************************************************************************)
(* SpecRisk: the risk log.  The store maps a primary key to the columns    *)
(* [probability, impact, rag] of a risk.                                   *)
(***************************************************************************)
MaxRisks == 2        \* largest primary key of a risk

None == "None"       \* data.get(key) of a key that is missing or empty

Levels == {"High", "Medium", "Low"}
RagValues == {"Red", "Amber", "Green"}

\* the form data: any RAG value may come with it
RiskData ==
    [probability : Levels \cup {None}, impact : Levels \cup {None}, rag : RagValues \cup {None}]

\* one High value is enough for Red
calculate_rag_Either(prob, imp) ==
    IF prob = "High" \/ imp = "High" THEN "Red"
    ELSE IF prob = "Low" /\ imp = "Low" THEN "Green"
    ELSE "Amber"

\* the if / elif / else of RiskLogView.save_to_db
calculate_rag(prob, imp) ==
    IF prob = "High" /\ imp = "High" THEN "Red"
    ELSE IF prob = "Low" /\ imp = "Low" THEN "Green"
    ELSE "Amber"

\* RiskLogView.save_to_db(item, data): data['rag'] is set, then
\* BaseLogView.save_to_db copies every key of data to the row (item given)
\* or adds a new row
save_to_db ==
    \E item \in DOMAIN db \cup {NoRow}, data \in RiskData :
        LET stored == [data EXCEPT !.rag = calculate_rag(data.probability, data.impact)]
            row == IF item = NoRow
                   THEN (IF DOMAIN db = {} THEN 1 ELSE MaxOf(DOMAIN db) + 1)
                   ELSE item
        IN  /\ row <= MaxRisks
            /\ db' = [r \in DOMAIN db \cup {row} |-> IF r = row THEN stored ELSE db[r]]
            /\ last' = [op |-> "save_risk", row |-> row, data |-> data]
            /\ UNCHANGED <<tasks, rows, chart, sessions>>

\* BaseLogView.delete_item, confirmed
delete_item ==
    \E item \in DOMAIN db :
        /\ db' = [r \in DOMAIN db \ {item} |-> db[r]]
        /\ last' = [op |-> "delete_risk", row |-> item, data |-> db[item]]
        /\ UNCHANGED <<tasks, rows, chart, sessions>>

NextRisk == save_to_db \/ delete_item

SpecRisk == InitStore /\ [][NextRisk]_vars

(***************************************************************************)
(* Vocabulary of the claims about identifiers.                             *)
(***************************************************************************)
\* the dot-separated pieces of a string
RECURSIVE SplitDots(_)
SplitDots(s) ==
    IF ~HasDot(s) THEN <<s>>
    ELSE LET i == CHOOSE k \in 1..Len(s) : s[k] = "." /\ \A j \in 1..(k - 1) : s[j] # "."
         IN  <<SubSeq(s, 1, i - 1)>> \o SplitDots(Tail2(s, i + 1))

\* TASK3.10 |-> <<3, 10>>
IdTuple(id) ==
    LET parts == SplitDots(Tail2(id, 5))
    IN  [i \in 1..Len(parts) |-> IntOf(parts[i])]

RECURSIVE TupleLess(_, _)
TupleLess(a, b) ==
    IF Len(b) = 0 THEN FALSE
    ELSE IF Len(a) = 0 THEN TRUE
    ELSE IF a[1] # b[1] THEN a[1] < b[1]
    ELSE TupleLess(Tail(a), Tail(b))

LastComponent(id) == IdTuple(id)[Len(IdTuple(id))]

PositionOf(list, x) == CHOOSE i \in 1..Len(list) : list[i] = x

Permutations2(list) ==
    {[i \in 1..Len(list) |-> list[f[i]]] :
        f \in {g \in [1..Len(list) -> 1..Len(list)] :
                 \A i, j \in 1..Len(list) : g[i] = g[j] => i = j}}

(***************************************************************************)
(* C1: for valid identifiers a, b of the same depth, the sort key of a is  *)
(* less than the sort key of b in string order exactly when a's tuple of   *)
(* dot-separated integers is lexicographically less than b's.              *)
(***************************************************************************)
C1_SortKeyOrder ==
    rows # <<>> =>
        \A i, j \in 1..Len(rows) :
            DotCount(rows[i]) = DotCount(rows[j]) =>
                (StrLess(get_task_sort_key(rows[i]), get_task_sort_key(rows[j]))
                    <=> TupleLess(IdTuple(rows[i]), IdTuple(rows[j])))

(***************************************************************************)
(* C2: the rows sorted by the sort key place every task after its parent,  *)
(* siblings in increasing order of their last number, and the row order is *)
(* the same for every insertion order of the same tasks.                   *)
(***************************************************************************)
C2_LayoutOrder ==
    rows # <<>> =>
        /\ \A i, j \in 1..Len(rows) :
              (HasDot(rows[j]) /\ ParentIdStr(rows[j]) = rows[i]) => i < j
        /\ \A i, j \in 1..Len(rows) :
              (/\ i < j
               /\ DotCount(rows[i]) = DotCount(rows[j])
               /\ (HasDot(rows[i]) => ParentIdStr(rows[i]) = ParentIdStr(rows[j])))
                  => LastComponent(rows[i]) <= LastComponent(rows[j])
        /\ \A other \in Permutations2(tasks) : SortByKey(other) = rows

(***************************************************************************)
(* Vocabulary of the claims about the store.                               *)
(***************************************************************************)
SavedOk == last.op \in {"create", "edit"} /\ last.status = "ok"

OtherIds(d, row) == {d[r].task_id : r \in DOMAIN d \ {row}}

\* numbers n of the identifiers that are exactly TASKn
RootNumbers(S) ==
    {IntOf(Tail2(id, 5)) : id \in {x \in S : StartsWith(x, TASK) /\ IsDigitStr(Tail2(x, 5))}}

\* numbers n of the identifiers that are exactly P.n
ChildNumbers(S, P) ==
    {LastComponent(id) : id \in {x \in S : HasDot(x) /\ ParentIdStr(x) = P}}

\* identifiers two or more levels below P
DeeperIds(S, P) ==
    {x \in S : StartsWith(x, P \o DOT) /\ DotCount(x) > DotCount(P) + 1}

(***************************************************************************)
(* C3: an auto-generated root identifier is TASK{m+1}, m the largest       *)
(* number among the depth-0 identifiers only (0 when there is none);       *)
(* identifiers that contain a dot do not count.                            *)
(***************************************************************************)
C3_RootIdFromRootsOnly ==
    (SavedOk /\ last.op = "create" /\ last.how = "auto") =>
        db[last.row].task_id =
            TASK \o StrOf(MaxOf({0} \cup RootNumbers(OtherIds(db, last.row))) + 1)

(***************************************************************************)
(* C4: a generated sub-task identifier of parent P is P.{m+1}, m the       *)
(* largest n among the existing identifiers P.n one level below P (0 when  *)
(* there is none); deeper identifiers and other parents do not count.      *)
(***************************************************************************)
C4_ChildIdFromDirectChildren ==
    (SavedOk /\ last.op = "create" /\ last.how = "sub") =>
        LET P == db[db[last.row].parent_id].task_id
            m == MaxOf({0} \cup ChildNumbers(OtherIds(db, last.row), P))
        IN  db[last.row].task_id = P \o DOT \o StrOf(m + 1)

\* a sub-task identifier was generated for a parent that has an identifier
\* two levels below it and no direct child numbered as high
C4_Witness ==
    /\ SavedOk /\ last.op = "create" /\ last.how = "sub"
    /\ LET P == db[db[last.row].parent_id].task_id
       IN  \E x \in DeeperIds(OtherIds(db, last.row), P) :
              IdTuple(x)[DotCount(P) + 2] >= LastComponent(db[last.row].task_id)

(***************************************************************************)
(* C5: after any sequence of saves no two tasks have the same identifier;  *)
(* a create or rename whose identifier is used by another task reports an  *)
(* error and stores nothing.                                               *)
(***************************************************************************)
UniqueIds(d) == \A r1, r2 \in DOMAIN d : d[r1].task_id = d[r2].task_id => r1 = r2

C5_UniqueIdentifiers ==
    [][/\ UniqueIds(db')
       /\ (/\ last'.op \in {"create", "edit"}
           /\ last'.tid \in OtherIds(db, last'.row))
            => (last'.status # "ok" /\ db' = db)]_vars

\* a rename to an identifier that another task uses was refused
C5_Witness ==
    /\ last.op = "edit" /\ last.status = "duplicate"
    /\ last.tid \in OtherIds(db, last.row)
    /\ Cardinality(DOMAIN db) >= 3

(***************************************************************************)
(* C6: creating a task whose identifier has more than two dots fails and   *)
(* stores nothing; every stored identifier has depth 0, 1 or 2.            *)
(***************************************************************************)
C6_DepthExceeded ==
    /\ (last.op = "create" /\ DotCount(last.tid) > 2) => last.status # "ok"
    /\ \A r \in DOMAIN db : DotCount(db[r].task_id) <= 2

(***************************************************************************)
(* Vocabulary of the claims about the propagators.                         *)
(***************************************************************************)
Max2(a, b) == IF a >= b THEN a ELSE b
Min2(a, b) == IF a <= b THEN a ELSE b

RECURSIVE AncestorsOf(_, _)
AncestorsOf(d, r) ==
    IF ParentOf(d, r) = NoRow THEN {}
    ELSE {ParentOf(d, r)} \cup AncestorsOf(d, ParentOf(d, r))

\* the row of the chain from E to the root that lies directly below A
BelowOnChain(d, E, A) == CHOOSE B \in {E} \cup AncestorsOf(d, E) : ParentOf(d, B) = A

\* A's dates are the hull of its dates in d0 and the dates of B in d1
ExpandedBy(d0, d1, A, B) ==
    /\ d1[A].end_date = Max2(d0[A].end_date, d1[B].end_date)
    /\ d1[A].start_date = Min2(d0[A].start_date, d1[B].start_date)

\* every row of S that has a parent lies within its parent's range
ChainNested(d, S) ==
    \A A \in S :
        ParentOf(d, A) # NoRow =>
            /\ d[ParentOf(d, A)].start_date <= d[A].start_date
            /\ d[ParentOf(d, A)].end_date >= d[A].end_date

C8_NeverShrinks ==
    [][(last'.op \in {"create", "edit"} /\ last'.status = "ok") =>
          /\ \A T \in DOMAIN db \ {last'.row} :
                /\ T \in DOMAIN db'
                /\ db'[T].start_date <= db[T].start_date
                /\ db'[T].end_date >= db[T].end_date
          /\ db'[last'.row].start_date = last'.start_date
          /\ db'[last'.row].end_date = last'.end_date]_vars

\* a save expanded the range of an ancestor
C8_Witness == SavedOk /\ last.dchg # {}

(***************************************************************************)
(* C9 and C10: completion aggregation.                                     *)
(***************************************************************************)
DurationDays(d, c) == Max2(1, d[c].end_date - d[c].start_date + 1)

RECURSIVE SumDurations(_, _)
SumDurations(d, S) ==
    IF S = {} THEN 0
    ELSE DurationDays(d, MaxOf(S)) + SumDurations(d, S \ {MaxOf(S)})

RECURSIVE SumWeighted(_, _)
SumWeighted(d, S) ==
    IF S = {} THEN 0
    ELSE d[MaxOf(S)].completion * DurationDays(d, MaxOf(S))
            + SumWeighted(d, S \ {MaxOf(S)})

\* the quotient a / b rounded to the nearest integer, and truncated
Rounded(a, b) == (2 * a + b) \div (2 * b)
Truncated(a, b) == a \div b

\* a parent with children of 2 days (100 %) and 8 days (0 %)
ExampleRow(parent, s, e, c) ==
    [task_id |-> TASK, parent_id |-> parent, start_date |-> s, end_date |-> e,
     completion |-> c]
ExampleDb == <<ExampleRow(0, 0, 9, 0), ExampleRow(1, 0, 1, 100), ExampleRow(1, 2, 9, 0)>>

SavedWithParent == SavedOk /\ ParentOf(db, last.row) # NoRow

(***************************************************************************)
(* C9 as stated: after aggregation the parent's completion is the rounded  *)
(* duration-weighted mean of its direct children.                          *)
(***************************************************************************)
C9_RoundedAverage ==
    SavedWithParent =>
        LET P == ParentOf(db, last.row)
        IN  db[P].completion =
                Rounded(SumWeighted(db, ChildrenOf(db, P)), SumDurations(db, ChildrenOf(db, P)))

(***************************************************************************)
(* C9 as amended: the parent's completion is the truncated                 *)
(* duration-weighted mean of its direct children (durations at least one   *)
(* day); children of 2 days at 100 and 8 days at 0 give 20.                *)
(***************************************************************************)
C9_TruncatedAverage ==
    /\ SavedWithParent =>
          LET P == ParentOf(db, last.row)
          IN  db[P].completion =
                  Truncated(SumWeighted(db, ChildrenOf(db, P)),
                            SumDurations(db, ChildrenOf(db, P)))
    /\ update_parent_completion(ExampleDb, 1, 0)[1].completion = 20

\* children of 2 days at 100 and 1 day at 0: the parent is at 66, not 67
C9_Witness ==
    /\ SavedWithParent
    /\ db[ParentOf(db, last.row)].completion = 66
    /\ Cardinality(ChildrenOf(db, ParentOf(db, last.row))) = 2

(***************************************************************************)
(* C10: running the aggregation again on the same parent, with nothing in  *)
(* between, changes no completion (and no date) of any task.               *)
(***************************************************************************)
C10_Idempotent ==
    (last.op = "recompute" /\ last.rerun # "first") =>
        (last.cchg = {} /\ last.dchg = {})

\* the second of two runs, the first of which changed a completion
C10_Witness == last.op = "recompute" /\ last.rerun = "after_change"

(***************************************************************************)
(* C11: parents contain their children.                                    *)
(***************************************************************************)
\* every task that has a parent lies within its parent's date range
Nested(d) == ChainNested(d, DOMAIN d)

(***************************************************************************)
(* C11 as stated: after any sequence of creates and updates every task     *)
(* with children starts no later than each child and ends no earlier.      *)
(***************************************************************************)
C11_ParentsContainChildren == Nested(db)

(***************************************************************************)
(* C11 as amended: a create, and an update of a task that has no children, *)
(* keep the containment when it held before; an update of a task that has  *)
(* children stores the dates of the form without looking at the children.  *)
(***************************************************************************)
C11_LeafSavesKeepContainment ==
    [][(/\ Nested(db)
        /\ last'.op \in {"create", "edit"} /\ last'.status = "ok"
        /\ ChildrenOf(db, last'.row) = {})
          => Nested(db')]_vars

\* a save of a task without children widened its parent and grandparent and
\* the containment holds
C11_Witness ==
    /\ SavedOk /\ ChildrenOf(db, last.row) = {}
    /\ Cardinality(last.dchg) = 2
    /\ Nested(db)

(***************************************************************************)
(* C12: ancestors carry the weighted average of their children.            *)
(***************************************************************************)
\* the completion of A is the duration-weighted average of its children
Aggregated(d, A) ==
    d[A].completion =
        Truncated(SumWeighted(d, ChildrenOf(d, A)), SumDurations(d, ChildrenOf(d, A)))

AllAggregated(d) == \A A \in DOMAIN d : ChildrenOf(d, A) # {} => Aggregated(d, A)

(***************************************************************************)
(* C12: when every task with children carried the weighted average of its  *)
(* children before, then after a create or update of a task that has a     *)
(* parent every ancestor of the saved task carries it again, also the      *)
(* ancestors whose child was widened by the save.                          *)
(***************************************************************************)
C12_AncestorsAggregated ==
    [][(/\ AllAggregated(db)
        /\ last'.op \in {"create", "edit"} /\ last'.status = "ok")
          => \A A \in AncestorsOf(db', last'.row) : Aggregated(db', A)]_vars

(***************************************************************************)
(* C13: a save that fails validation.                                      *)
(***************************************************************************)
\* TASK<digits>(.<digits>)*
WellFormed(id) ==
    /\ StartsWith(id, TASK)
    /\ \A i \in 1..Len(SplitDots(Tail2(id, 5))) :
          LET part == SplitDots(Tail2(id, 5))[i]
          IN  Len(part) > 0 /\ IsDigitStr(part)

\* what the claim calls a validation failure of the form: tid and the dates
\* as entered, for the task `row` (NoRow for a create) of the store d
FailsValidation(d, row, tid, s, e) ==
    \/ tid # TASK /\ ~WellFormed(tid)
    \/ tid # TASK /\ tid \in OtherIds(d, row)
    \/ tid # TASK /\ HasDot(tid) /\ ParentIdStr(tid) \notin Ids(d)
    \/ s # NoDate /\ e # NoDate /\ s > e

(***************************************************************************)
(* C13: a save whose identifier is malformed, in use, or names a parent    *)
(* that is not stored, or whose start date is after its end date, reports  *)
(* an error and leaves every stored task as it was.                        *)
(***************************************************************************)
C13_FailedSaveChangesNothing ==
    [][(last'.op \in {"create", "edit"}) =>
          /\ FailsValidation(db, IF last'.op = "edit" THEN last'.row ELSE NoRow,
                             last'.tid, last'.start_date, last'.end_date)
                => last'.status # "ok"
          /\ last'.status # "ok" => db' = db]_vars

\* the edit of a task that has a parent was refused
C13_Witness ==
    /\ last.op = "edit"
    /\ last.status \in {"duplicate", "parent_missing", "date_range"}
    /\ ParentOf(db, last.row) # NoRow

(***************************************************************************)
(* C14: missing dates during date expansion.                               *)
(***************************************************************************)
MissingDate(d, r) == d[r].start_date = NoDate \/ d[r].end_date = NoDate

(***************************************************************************)
(* C14: a save that passes validation completes and is stored with the     *)
(* dates of the form also when a date of the saved task or of an ancestor  *)
(* is missing; the expansion is abandoned at the first ancestor A where a  *)
(* date of A or of the task below it is missing: no ancestor above A       *)
(* changes.                                                                *)
(***************************************************************************)
C14_MissingDateAbandons ==
    [][(/\ last'.op \in {"create", "edit"}
        /\ last'.status \notin {"name_required", "date_range"})
          => /\ last'.status = "ok"
             /\ last'.row \in DOMAIN db'
             /\ DatesOf(db', last'.row) = <<last'.start_date, last'.end_date>>
             /\ \A A \in AncestorsOf(db', last'.row) :
                   (MissingDate(db, A) \/ MissingDate(db', BelowOnChain(db', last'.row, A)))
                      => \A G \in AncestorsOf(db', A) : DatesOf(db', G) = DatesOf(db, G)]_vars

\* a saved task without start date widened the end of its parent before the
\* comparison of the start dates was abandoned
C14_Witness ==
    /\ SavedOk
    /\ last.start_date = NoDate /\ last.end_date # NoDate
    /\ ParentOf(db, last.row) \in last.dchg

(***************************************************************************)
(* C15: deleting a task.                                                   *)
(***************************************************************************)
\* the tasks of d that have r among their ancestors
Below(d, r) == {x \in DOMAIN d : r \in AncestorsOf(d, x)}

NoDanglingParent(d) ==
    \A r \in DOMAIN d : d[r].parent_id # NoRow => d[r].parent_id \in DOMAIN d

(***************************************************************************)
(* C15: a delete removes the task and all its descendants and nothing      *)
(* else, and no stored task ever references a parent that is not stored.   *)
(***************************************************************************)
C15_DeleteCascades ==
    [][/\ last'.op = "delete" =>
             /\ DOMAIN db' = DOMAIN db \ ({last'.row} \cup Below(db, last'.row))
             /\ \A r \in DOMAIN db' : db'[r] = db[r]
       /\ NoDanglingParent(db')]_vars

\* a task was deleted together with its two descendants
C15_Witness ==
    /\ last.op = "delete"
    /\ Cardinality(last.gone) = 3
    /\ db = EmptyDb

(***************************************************************************)
(* C16: on each of the five scales, with one origin and one slot width,    *)
(* the offset never decreases with the date: for dates a before b the      *)
(* offset of a is at most the offset of b, also across the end of a month, *)
(* the end of a year and the 29th of February.                             *)
(***************************************************************************)
\* x <= y for fractions with positive denominators
FracLeq(x, y) == x[1] * y[2] <= y[1] * x[2]

Measured == chart.kind = "offsets"

C16_OffsetMonotone == Measured => FracLeq(chart.xa, chart.xb)

\* the last day of the leap year and the first day of the next one, on the
\* scale of years: the offset grows
C16_Witness ==
    /\ Measured
    /\ chart.view_mode = "Years"
    /\ chart.a = <<FirstYear, 12, 31>> /\ chart.b = <<FirstYear + 1, 1, 1>>
    /\ IsLeap(FirstYear)
    /\ FracLeq(chart.xa, chart.xb) /\ ~FracLeq(chart.xb, chart.xa)

(***************************************************************************)
(* C17: in the task chart the distinct workstreams are numbered in the     *)
(* order in which the rows first show them, and a row of workstream number *)
(* i (from 0) has the colour Palette[i mod palette size].                  *)
(***************************************************************************)
TaskChartBuilt == chart.kind = "chart" /\ chart.layout = "task"

\* how many distinct workstreams the rows show up to the first row of ws
FirstSeenNumber(chartRows, ws) ==
    LET first == CHOOSE i \in 1..Len(chartRows) :
                     /\ chartRows[i].workstream = ws
                     /\ \A j \in 1..(i - 1) : chartRows[j].workstream # ws
    IN  Cardinality({chartRows[j].workstream : j \in 1..(first - 1)})

C17_ColourByFirstSeen ==
    TaskChartBuilt =>
        \A i \in 1..Len(chart.rows) :
            chart.rows[i].color =
                Palette[(FirstSeenNumber(chart.rows, chart.rows[i].workstream) % Len(Palette)) + 1]

(***************************************************************************)
(* C18: in the task chart and in the portfolio chart the axis starts two   *)
(* days before the earliest start and ends five days after the latest end  *)
(* of the entries that have both dates.                                    *)
(***************************************************************************)
DatedEntries == SelectSeq(tasks, HasBothDates)

C18_AxisBounds ==
    chart.kind = "chart" =>
        /\ chart.min_date = MinStart(DatedEntries) - 2
        /\ chart.max_date = MaxEnd(DatedEntries) + 5

(***************************************************************************)
(* C19: the task chart of an empty list, or of a list in which no task has *)
(* both dates, is a placeholder without axis and without rows, on every    *)
(* scale; a chart with an axis always has at least one row.                *)
(***************************************************************************)
TaskLayoutDone == chart.kind # "none" /\ chart.layout = "task"

NoEntryDated ==
    \A i \in 1..Len(tasks) : tasks[i].start_date = NoDate \/ tasks[i].end_date = NoDate

IsPlaceholder(c) ==
    /\ c.kind \in {"no_tasks", "no_dates"}
    /\ DOMAIN c \cap {"min_date", "max_date", "rows"} = {}

C19_EmptyInputPlaceholder ==
    TaskLayoutDone =>
        /\ NoEntryDated => IsPlaceholder(chart)
        /\ ~NoEntryDated => (chart.kind = "chart" /\ Len(chart.rows) > 0)
        /\ chart.view_mode \in Scales

\* a list with a task that has only a start date gave the placeholder
C19_Witness ==
    /\ TaskLayoutDone
    /\ \E i \in 1..Len(tasks) : tasks[i].start_date # NoDate /\ tasks[i].end_date = NoDate
    /\ chart.kind = "no_dates"
    /\ chart.view_mode = "Quarters"

\* the empty list gave the placeholder
C19_WitnessEmpty == TaskLayoutDone /\ tasks = <<>> /\ chart.kind = "no_tasks"

(***************************************************************************)
(* C20: the RAG value of every stored risk is Red exactly when probability *)
(* and impact are both High, Green exactly when both are Low, and Amber in *)
(* every other case, a missing value included; the RAG value that came     *)
(* with the form data is not the one stored.                               *)
(***************************************************************************)
RagFollows(r) ==
    LET bothHigh == r.probability = "High" /\ r.impact = "High"
        bothLow == r.probability = "Low" /\ r.impact = "Low"
    IN  /\ r.rag \in RagValues
        /\ r.rag = "Red" <=> bothHigh
        /\ r.rag = "Green" <=> bothLow
        /\ r.rag = "Amber" <=> (~bothHigh /\ ~bothLow)

C20_RagFromProbabilityAndImpact ==
    /\ \A r \in DOMAIN db : RagFollows(db[r])
    /\ last.op = "save_risk" =>
          /\ db[last.row].probability = last.data.probability
          /\ db[last.row].impact = last.data.impact
          /\ db[last.row].rag = calculate_rag(last.data.probability, last.data.impact)

\* a risk saved with a High probability, no impact and the RAG value Red in
\* the form data is stored as Amber
C20_Witness ==
    /\ last.op = "save_risk"
    /\ last.data = [probability |-> "High", impact |-> None, rag |-> "Red"]
    /\ db[last.row].rag = "Amber"

(***************************************************************************)
(* C21: after a save of a task E that has a parent, every ancestor of E up *)
(* to the root starts no later than E and ends no earlier than E, also     *)
(* when the direct parent already contained E and a higher ancestor did    *)
(* not.                                                                    *)
(***************************************************************************)
Contains(d, A, E) ==
    /\ d[A].start_date <= d[E].start_date
    /\ d[A].end_date >= d[E].end_date

ChainFrom(d, p) == {p} \cup AncestorsOf(d, p)

C22_AggregationFrame ==
    [][last'.op = "recompute" =>
          LET p == last'.row
              changed == last'.cchg
          IN  /\ DOMAIN db' = DOMAIN db
              /\ \A r \in DOMAIN db :
                    /\ DatesOf(db', r) = DatesOf(db, r)
                    /\ db'[r].task_id = db[r].task_id /\ db'[r].parent_id = db[r].parent_id
              /\ changed \subseteq ChainFrom(db, p)
              /\ \A r \in changed : ChildrenOf(db, r) # {} /\ Aggregated(db', r)
              /\ ChildrenOf(db, p) = {} => changed = {}
              /\ (ChildrenOf(db, p) # {} /\ ~Aggregated(db, p)) => p \in changed
              /\ \A r \in ChainFrom(db, p) :
                    r \notin changed => AncestorsOf(db, r) \cap changed = {}
              /\ \A r \in changed :
                    ParentOf(db, r) # NoRow => Aggregated(db', ParentOf(db, r))]_vars

\* a call changed the task it was made on and that task's parent
C22_Witness == last.op = "recompute" /\ Cardinality(last.cchg) = 2

\* a call on a task that carried its average left a stale parent as it was
C22_WitnessStop ==
    /\ last.op = "recompute" /\ last.cchg = {}
    /\ ChildrenOf(db, last.row) # {}
    /\ ParentOf(db, last.row) # NoRow
    /\ ~Aggregated(db, ParentOf(db, last.row))

(***************************************************************************)
(* C23: a create or an update of a task that has no parent stores that     *)
(* task and changes no field of any other task.                            *)
(***************************************************************************)
C23_RootSaveChangesNoOther ==
    [][(/\ last'.op \in {"create", "edit"} /\ last'.status = "ok"
        /\ db'[last'.row].parent_id = NoRow)
          => /\ DOMAIN db' = DOMAIN db \cup {last'.row}
             /\ \A r \in DOMAIN db \ {last'.row} : db'[r] = db[r]]_vars

\* a task without parent that has a child was saved with dates that do not
\* contain the child
C23_Witness ==
    /\ SavedOk /\ last.op = "edit"
    /\ db[last.row].parent_id = NoRow
    /\ \E c \in ChildrenOf(db, last.row) : ~Contains(db, last.row, c)

(***************************************************************************)
(* C24: a save is one transaction.  The committed store changes only in    *)
(* the step in which a session commits: that step stores the saved task    *)
(* with the values of the form together with every change to its           *)
(* ancestors, and a new task lies within its parent's range from the       *)
(* moment it is visible.  A save that is refused or that fails before its  *)
(* commit leaves the committed store as it was.                            *)
(***************************************************************************)
Commits(s) ==
    /\ sessions[s].pc \in {"flushed", "dirty"}
    /\ sessions'[s] = Idle
    /\ last'.status = "ok"
    /\ last'.op = sessions[s].op
    /\ last'.row = sessions[s].row

C24_SaveIsOneTransaction ==
    [][/\ db' # db =>
             /\ \E s \in SessionIds : Commits(s)
             /\ DatesOf(db', last'.row) = <<last'.start_date, last'.end_date>>
             /\ (last'.op = "create" /\ ParentOf(db', last'.row) # NoRow)
                   => Contains(db', ParentOf(db', last'.row), last'.row)
       /\ last'.status # "ok" => db' = db
       /\ (\E s \in SessionIds : Active(s) /\ ~Active(s)' /\ ~Commits(s)) =>
             (last'.status = "save_error" /\ db' = db)]_vars

\* a new sub-task and the widened dates of its parent were committed in one
\* step while the other session was in the middle of a save
C24_Witness ==
    /\ last.op = "create" /\ last.status = "ok"
    /\ ParentOf(db, last.row) \in last.dchg
    /\ \E s \in SessionIds : Active(s)

\* a save failed after its flush and nothing of it is stored
C24_WitnessRollback ==
    /\ last.op = "create" /\ last.status = "save_error"
    /\ \A s \in SessionIds : sessions[s].pc # "flushed"
    /\ db = EmptyDb

(***************************************************************************)
(* C29: two creates with generated identifiers that run at the same time   *)
(* in two sessions never store two tasks with the same identifier.         *)
(***************************************************************************)
C29_ConcurrentIdsDiffer ==
    \A r1, r2 \in DOMAIN db : db[r1].task_id = db[r2].task_id => r1 = r2

(***************************************************************************)
(* C25: after any creates, renames and deletes a task has a parent exactly *)
(* when its identifier contains a dot, and the parent's identifier is then *)
(* the task's identifier without its last dot-segment.                     *)
(***************************************************************************)
LinkAgrees(d, r) ==
    /\ d[r].parent_id # NoRow <=> HasDot(d[r].task_id)
    /\ d[r].parent_id # NoRow =>
          /\ d[r].parent_id \in DOMAIN d
          /\ d[d[r].parent_id].task_id = ParentIdStr(d[r].task_id)

C25_ParentLinkAgrees == \A r \in DOMAIN db : LinkAgrees(db, r)

(***************************************************************************)
(* C28: when the call of update_hierarchy_dates for the saved task ends in *)
(* its error branch, because a date of the task or of its parent is        *)
(* missing, no ancestor has its start or end date changed.                 *)
(***************************************************************************)
C28_ErrorBranchChangesNothing ==
    [][(/\ last'.op \in {"create", "edit"} /\ last'.status = "ok"
        /\ ParentOf(db', last'.row) # NoRow
        /\ (MissingDate(db', last'.row) \/ MissingDate(db, ParentOf(db', last'.row))))
          => \A A \in AncestorsOf(db', last'.row) : DatesOf(db', A) = DatesOf(db, A)]_vars

(***************************************************************************)
(* C30: on each of the five scales and for every origin, the offset of the *)
(* origin date itself is 0.                                                *)
(***************************************************************************)
C30_OriginAtZero ==
    (Measured /\ chart.a = chart.min_date) => chart.xa[1] = 0

(***************************************************************************)
(* C26: a call of update_hierarchy_dates or of update_parent_completion    *)
(* returns after finitely many call levels, whether the parent chain of    *)
(* the task is intact, ends at a missing parent or runs into a cycle.      *)
(***************************************************************************)
Called == sessions[Walker].pc \in {"dates", "completion"}

Returned == last.op \in {"dates", "completion"} /\ sessions = NoSessions

C26_PropagatorsTerminate == Called ~> Returned

\* the n-th parent of a row, NoRow when the chain ends before
RECURSIVE ParentAt(_, _, _)
ParentAt(d, r, n) ==
    IF n = 0 \/ r = NoRow THEN r ELSE ParentAt(d, ParentOf(d, r), n - 1)

\* the rows of a store that are their own ancestors
OnCycle(d) ==
    {r \in DOMAIN d : \E n \in 1..Cardinality(DOMAIN d) : ParentAt(d, r, n) = r}

\* the date walk has returned on a cycle of two rows after changing both
C26_Witness ==
    /\ Returned
    /\ last.op = "dates"
    /\ OnCycle(db) = DOMAIN db
    /\ db[1].parent_id = 2
    /\ Cardinality(last.dchg) = 2

\* the completion walk has returned on a row that is its own parent
C26_WitnessSelfParent ==
    /\ Returned
    /\ last.op = "completion"
    /\ db[1].parent_id = 1
    /\ 1 \in last.cchg

\* the date walk has returned for a task whose parent is gone
C26_WitnessMissingParent ==
    /\ Returned
    /\ last.op = "dates"
    /\ db[1].parent_id = MaxWalkRows + 1

====
